---- MODULE Spec2Model ----
(***************************************************************************)
(* Broken-links synthetic: the deadline-bounded batch runner checkLinks,   *)
(* the per-link check checkLink, the retrying fetcher navigate and the     *)
(* helpers of link_utils they call.                                        *)
(*                                                                         *)
(* One step of the model is one macrotask of the Node.js event loop: the   *)
(* completion of an awaited browser operation, or the deadline timer's     *)
(* callback, together with every microtask it schedules (the resumption of *)
(* the async functions, the settlement of Promise.race and its .then       *)
(* callback).                                                              *)
(***************************************************************************)
EXTENDS Integers, Sequences, FiniteSets, TLC

\* ------------------------------------------------------------------ bounds
MaxLinks == 2
MaxRetries == 1
\* getTimeLimitPromise: milliseconds between startTime and the call, and
\* milliseconds of the total timeout beyond the offset
MaxElapsed == 5
MaxSlack == 3
\* parseFollowedLinks: length of the list of results
MaxResults == 2
\* createSyntheticResult: length of the list of results
MaxReportResults == 1
\* checkStatusPassing: the largest actual status code
MaxStatus == 699
\* shuffleAndTruncate: the most links found, and the largest link_limit
MaxFound == 4
MaxLimit == 5

\* ------------------------------------------------------------------ values
URIs == {"u1", "u2"}
Statuses == {200, 404}
OriginUri == "origin"

\* HTTPResponse | Error | null, and the undefined of `{} as CommonResponseProps`
HTTPResponse(s) == [kind |-> "HTTPResponse", status |-> s]
PuppeteerError == [kind |-> "Error", status |-> 0]
Null == [kind |-> "null", status |-> 0]
Undefined == [kind |-> "undefined", status |-> 0]
Outcomes == {HTTPResponse(s) : s \in Statuses} \cup {PuppeteerError, Null}

\* how page.goto settles: it resolves with a response or null, or it rejects
\* with an Error (timeout, DNS, TLS, reset) or with something that is no Error
NonError == [kind |-> "non-Error", status |-> 0]
GotoSettlements ==
  {[how |-> "resolved", value |-> v] : v \in {HTTPResponse(s) : s \in Statuses} \cup {Null}}
    \cup {[how |-> "rejected", value |-> v] : v \in {PuppeteerError, NonError}}

\* ResponseStatusCode: oneof status_value | status_class
StatusValue(v) == [has_value |-> TRUE, status_value |-> v, status_class |-> "unset"]
StatusClass(c) == [has_value |-> FALSE, status_value |-> 0, status_class |-> c]

\* an entry of options.per_link_options, and a missing entry
PerLink(hasExp, exp, hasTimeout, t) ==
  [present |-> TRUE, has_expected |-> hasExp, expected_status_code |-> exp,
   has_timeout |-> hasTimeout, link_timeout_millis |-> t]
NoPerLink ==
  [present |-> FALSE, has_expected |-> FALSE,
   expected_status_code |-> StatusClass("unset"),
   has_timeout |-> FALSE, link_timeout_millis |-> 0]

PerLinkChoices ==
  { [u \in URIs |-> NoPerLink],
    [u \in URIs |-> IF u = "u1" THEN PerLink(TRUE, StatusValue(404), TRUE, 10)
                    ELSE NoPerLink],
    [u \in URIs |-> IF u = "u2" THEN PerLink(FALSE, StatusClass("unset"), TRUE, 10)
                    ELSE NoPerLink] }

CaptureConditions == {"ALL", "FAILING", "NONE"}

OptionChoices ==
  [origin_uri : {OriginUri},
   max_retries : (-1) .. MaxRetries,
   link_timeout_millis : {30000},
   capture_condition : CaptureConditions,
   per_link_options : PerLinkChoices]

LinkLists == UNION { [1 .. n -> URIs] : n \in 0 .. MaxLinks }

\* the Error a rejected checkLinks carries: which message, naming which link
NoError == [message |-> "none", target_uri |-> ""]
OpenPageError ==
  [message |-> "An error occurred while opening a new puppeteer.Page.",
   target_uri |-> ""]
LinkError(uri) ==
  [message |-> "An error occurred while checking", target_uri |-> uri]

\* `{} as CommonResponseProps`, and the clock reading no attempt has taken
NoOutput == [responseOrError |-> Undefined, linkStartTime |-> 0, linkEndTime |-> 0]

VARIABLES
  links,               \* checkLinks' argument, as the Link Selector produced it
  options,             \* checkLinks' argument
  timeLimitReached,    \* line 113
  followed_links,      \* line 114: the array checkLinks fills and returns
  timeLimitTimeout,    \* the timer of getTimeLimitPromise: armed | fired | cleared
  timeLimitPromise,    \* pending | resolved (always with false)
  checkLinksPromise,   \* the promise checkLinks returned
  pc,                  \* where sequentialPromises() is suspended
  idx,                 \* the for-loop's position in links (1-based)
  retriesRemaining,    \* navigate's local
  passed,              \* navigate's local
  fetch_link_output,   \* navigate's local
  screenshotTaken,     \* checkLink: uploadScreenshotToGCS was invoked
  attempts,            \* history: the fetch attempts of the navigate in progress
  inFlight,            \* history: the page.goto calls not yet settled
  hPage,               \* history of the page: resets, the last settlements
  calc,                \* the call of a helper of link_utils checked on its own
  startedAfterFire,    \* history: link checks started after the timer fired
  hTimer,              \* history of the timer and the race
  hWorker              \* history of the worker

workerVars ==
  <<followed_links, pc, idx, retriesRemaining, passed, fetch_link_output,
    screenshotTaken, attempts, startedAfterFire, inFlight, hPage, hWorker>>
raceVars ==
  <<timeLimitReached, timeLimitTimeout, timeLimitPromise, checkLinksPromise, hTimer>>
\* checkLinks never assigns its arguments
inputs == <<links, options>>
mainVars == <<inputs, workerVars, raceVars>>
vars == <<mainVars, calc>>

\* no helper is being checked on its own
NoCalc == [op |-> "none"]

\* ------------------------------------------------------- link_utils helpers

\* faulty variant: the bands stop one short (actual < x99)
checkStatusPassing_ShortBand(expected, actual) ==
  IF expected.has_value
  THEN expected.status_value = actual
  ELSE CASE expected.status_class = "STATUS_CLASS_1XX" -> actual >= 100 /\ actual < 199
         [] expected.status_class = "STATUS_CLASS_2XX" -> actual >= 200 /\ actual < 299
         [] expected.status_class = "STATUS_CLASS_3XX" -> actual >= 300 /\ actual < 399
         [] expected.status_class = "STATUS_CLASS_4XX" -> actual >= 400 /\ actual < 499
         [] expected.status_class = "STATUS_CLASS_5XX" -> actual >= 500 /\ actual < 599
         [] OTHER -> FALSE

\* faulty variant: status_value passes when actual is in its hundred
checkStatusPassing_SameHundred(expected, actual) ==
  IF expected.has_value
  THEN expected.status_value \div 100 = actual \div 100
  ELSE CASE expected.status_class = "STATUS_CLASS_1XX" -> actual >= 100 /\ actual <= 199
         [] expected.status_class = "STATUS_CLASS_2XX" -> actual >= 200 /\ actual <= 299
         [] expected.status_class = "STATUS_CLASS_3XX" -> actual >= 300 /\ actual <= 399
         [] expected.status_class = "STATUS_CLASS_4XX" -> actual >= 400 /\ actual <= 499
         [] expected.status_class = "STATUS_CLASS_5XX" -> actual >= 500 /\ actual <= 599
         [] OTHER -> FALSE

\* faulty variant: the default of the switch returns true
checkStatusPassing_DefaultPasses(expected, actual) ==
  IF expected.has_value
  THEN expected.status_value = actual
  ELSE CASE expected.status_class = "STATUS_CLASS_1XX" -> actual >= 100 /\ actual <= 199
         [] expected.status_class = "STATUS_CLASS_2XX" -> actual >= 200 /\ actual <= 299
         [] expected.status_class = "STATUS_CLASS_3XX" -> actual >= 300 /\ actual <= 399
         [] expected.status_class = "STATUS_CLASS_4XX" -> actual >= 400 /\ actual <= 499
         [] expected.status_class = "STATUS_CLASS_5XX" -> actual >= 500 /\ actual <= 599
         [] OTHER -> TRUE

checkStatusPassing(expected, actual) ==
  IF expected.has_value
  THEN expected.status_value = actual
  ELSE CASE expected.status_class = "STATUS_CLASS_1XX" -> actual >= 100 /\ actual <= 199
         [] expected.status_class = "STATUS_CLASS_2XX" -> actual >= 200 /\ actual <= 299
         [] expected.status_class = "STATUS_CLASS_3XX" -> actual >= 300 /\ actual <= 399
         [] expected.status_class = "STATUS_CLASS_4XX" -> actual >= 400 /\ actual <= 499
         [] expected.status_class = "STATUS_CLASS_5XX" -> actual >= 500 /\ actual <= 599
         [] OTHER -> FALSE

\* response !== null && typeof response === 'object' && 'status' in response
isHTTPResponse(response) ==
  /\ response.kind # "null"
  /\ response.kind \in {"HTTPResponse", "Error"}
  /\ response.kind = "HTTPResponse"

\* faulty variant: FAILING takes the screenshot of the links that passed
shouldTakeScreenshot_OnPassing(opts, psd) ==
  \/ opts.capture_condition = "ALL"
  \/ (opts.capture_condition = "FAILING" /\ psd)

shouldTakeScreenshot(opts, psd) ==
  \/ opts.capture_condition = "ALL"
  \/ (opts.capture_condition = "FAILING" /\ ~psd)

\* clearTimeout: cancels a pending timer, no effect on one that fired or was cleared
clearTimeout(timer) == IF timer = "armed" THEN "cleared" ELSE timer

\* ------------------------------------------------------------ initial state
\* checkLinks has been called: the timer is armed (getTimeLimitPromise), and
\* sequentialPromises() has run up to its first await, browser.newPage().
CheckLinksCalled ==
  /\ timeLimitReached = FALSE
  /\ followed_links = <<>>
  /\ timeLimitTimeout = "armed"
  /\ timeLimitPromise = "pending"
  /\ checkLinksPromise = [state |-> "pending", value |-> <<>>, error |-> NoError]
  /\ pc = "openNewPage"
  /\ idx = 0
  /\ retriesRemaining = 0
  /\ passed = FALSE
  /\ fetch_link_output = NoOutput
  /\ screenshotTaken = FALSE
  /\ attempts = <<>>
  /\ hTimer = [fires |-> 0, clears |-> 0, resolverCalls |-> 0, firedAt |-> -1,
               inflightAtFire |-> 0, winner |-> "none"]
  /\ startedAfterFire = 0
  /\ inFlight = {}
  /\ hPage = [resets |-> 0, lastGoto |-> "none", lastResetFailed |-> FALSE]
  /\ hWorker = [completed |-> 0, completedAfterFire |-> 0,
                lateOps |-> {}, faultAt |-> 0]

Init ==
  /\ links \in LinkLists
  /\ options \in OptionChoices
  /\ CheckLinksCalled
  /\ calc = NoCalc

\* ------------------------------------------------------------- checkLink

expectedStatusCode(link) ==
  IF options.per_link_options[link].present
     /\ options.per_link_options[link].has_expected
  THEN options.per_link_options[link].expected_status_code
  ELSE StatusClass("STATUS_CLASS_2XX")

\* faulty variant: the timeout of any entry of per_link_options is used
per_link_timeout_millis_AnyEntry(link) ==
  LET withTimeout == {u \in URIs : options.per_link_options[u].present
                                   /\ options.per_link_options[u].has_timeout}
  IN IF withTimeout # {}
     THEN options.per_link_options[CHOOSE u \in withTimeout : TRUE].link_timeout_millis
     ELSE options.link_timeout_millis

per_link_timeout_millis(link) ==
  IF options.per_link_options[link].present
     /\ options.per_link_options[link].has_timeout
  THEN options.per_link_options[link].link_timeout_millis
  ELSE options.link_timeout_millis

\* faulty variant: IncorrectStatusCode only for a response that was received
errorType_OnlyResponses(responseOrError, psd) ==
  IF responseOrError.kind = "Error" THEN "TimeoutError"
  ELSE IF ~psd /\ responseOrError.kind = "HTTPResponse"
       THEN "BrokenLinksSynthetic_IncorrectStatusCode"
  ELSE ""

\* errorType of checkLink
errorType(responseOrError, psd) ==
  IF responseOrError.kind = "Error" THEN "TimeoutError"
  ELSE IF ~psd THEN "BrokenLinksSynthetic_IncorrectStatusCode"
  ELSE ""

\* faulty variant: the result names the link as its own source and as an origin
SyntheticLinkResult_SelfSourced(link, out, psd, shot) ==
  [link_passed |-> psd,
   expected_status_code |-> expectedStatusCode(link),
   source_uri |-> link,
   target_uri |-> link,
   has_status_code |-> isHTTPResponse(out.responseOrError),
   status_code |-> IF isHTTPResponse(out.responseOrError)
                   THEN out.responseOrError.status ELSE 0,
   error_type |-> errorType(out.responseOrError, psd),
   link_start_time |-> out.linkStartTime,
   link_end_time |-> out.linkEndTime,
   is_origin |-> TRUE,
   screenshot_taken |-> shot]

\* the object checkLink returns
SyntheticLinkResult(link, out, psd, shot) ==
  [link_passed |-> psd,
   expected_status_code |-> expectedStatusCode(link),
   source_uri |-> options.origin_uri,
   target_uri |-> link,
   has_status_code |-> isHTTPResponse(out.responseOrError),
   status_code |-> IF isHTTPResponse(out.responseOrError)
                   THEN out.responseOrError.status ELSE 0,
   error_type |-> errorType(out.responseOrError, psd),
   link_start_time |-> out.linkStartTime,
   link_end_time |-> out.linkEndTime,
   is_origin |-> FALSE,
   screenshot_taken |-> shot]

\* faulty variant: the navigation is abandoned, not awaited
SettledNavigation_NotAwaited == {}

\* the page.goto whose settlement resumes the worker: `await page.goto(...)` of
\* fetchLink and of gotoBlankPage
SettledNavigation ==
  IF pc = "fetchLink" THEN {<<"goto", idx>>}
  ELSE IF pc = "gotoBlankPage" THEN {<<"reset", idx>>}
  ELSE {}

\* the operations the worker started after checkLinks had resolved
Late(op, k) ==
  IF checkLinksPromise.state = "resolved" THEN {<<op, k>>} ELSE {}

\* faulty variant: the result is put at the front of the array (unshift for push)
CheckLinkReturns_Unshift(k, rr, psd, out, log, shot) ==
  /\ followed_links' = <<SyntheticLinkResult(links[k], out, psd, shot)>> \o followed_links
  /\ pc' = "gotoBlankPage"
  /\ idx' = k
  /\ retriesRemaining' = rr
  /\ passed' = psd
  /\ fetch_link_output' = out
  /\ screenshotTaken' = shot
  /\ attempts' = log
  /\ inFlight' = (inFlight \ SettledNavigation) \cup {<<"reset", k>>}
  /\ hWorker' = [hWorker EXCEPT
       !.completed = @ + 1,
       !.completedAfterFire = IF hTimer.fires > 0 THEN @ + 1 ELSE @,
       !.lateOps = @ \cup Late("reset", k)]

\* faulty variant: no reset after the link, the next link's check starts at once
CheckLinkReturns_NoReset(k, rr, psd, out, log, shot) ==
  /\ followed_links' = Append(followed_links, SyntheticLinkResult(links[k], out, psd, shot))
  /\ IF k < Len(links) /\ options.max_retries >= 0
     THEN /\ pc' = "fetchLink"
          /\ idx' = k + 1
          /\ retriesRemaining' = options.max_retries
          /\ passed' = FALSE
          /\ fetch_link_output' = NoOutput
          /\ screenshotTaken' = FALSE
          /\ attempts' = <<>>
          /\ inFlight' = (inFlight \ SettledNavigation) \cup {<<"goto", k + 1>>}
     ELSE /\ pc' = "gotoBlankPage"
          /\ idx' = k
          /\ retriesRemaining' = rr
          /\ passed' = psd
          /\ fetch_link_output' = out
          /\ screenshotTaken' = shot
          /\ attempts' = log
          /\ inFlight' = (inFlight \ SettledNavigation) \cup {<<"reset", k>>}
  /\ hWorker' = [hWorker EXCEPT
       !.completed = @ + 1,
       !.completedAfterFire = IF hTimer.fires > 0 THEN @ + 1 ELSE @,
       !.lateOps = @ \cup Late("reset", k)]

\* checkLink returns; checkLinks pushes the result and awaits gotoBlankPage
CheckLinkReturns(k, rr, psd, out, log, shot) ==
  /\ followed_links' = Append(followed_links, SyntheticLinkResult(links[k], out, psd, shot))
  /\ pc' = "gotoBlankPage"
  /\ idx' = k
  /\ retriesRemaining' = rr
  /\ passed' = psd
  /\ fetch_link_output' = out
  /\ screenshotTaken' = shot
  /\ attempts' = log
  /\ inFlight' = (inFlight \ SettledNavigation) \cup {<<"reset", k>>}
  /\ hWorker' = [hWorker EXCEPT
       !.completed = @ + 1,
       !.completedAfterFire = IF hTimer.fires > 0 THEN @ + 1 ELSE @,
       !.lateOps = @ \cup Late("reset", k)]

\* navigate has returned; checkLink decides on the screenshot (lines 195-205)
NavigateReturns(k, rr, psd, out, log) ==
  IF shouldTakeScreenshot(options, psd)
  THEN /\ pc' = "upload"
       /\ idx' = k
       /\ retriesRemaining' = rr
       /\ passed' = psd
       /\ fetch_link_output' = out
       /\ screenshotTaken' = TRUE
       /\ attempts' = log
       /\ inFlight' = inFlight \ SettledNavigation
       /\ hWorker' = [hWorker EXCEPT !.lateOps = @ \cup Late("upload", k)]
       /\ UNCHANGED followed_links
  ELSE CheckLinkReturns(k, rr, psd, out, log, FALSE)

\* faulty variant: the loop test is off by one (retriesRemaining >= 0)
NavigateLoop_OffByOne(k, rr, psd, out, log) ==
  IF rr >= 0 /\ ~psd
  THEN /\ pc' = "fetchLink"
       /\ idx' = k
       /\ retriesRemaining' = rr - 1
       /\ passed' = psd
       /\ fetch_link_output' = out
       /\ screenshotTaken' = FALSE
       /\ attempts' = log
       /\ inFlight' = (inFlight \ SettledNavigation) \cup {<<"goto", k>>}
       /\ hWorker' = [hWorker EXCEPT !.lateOps = @ \cup Late("goto", k)]
       /\ UNCHANGED followed_links
  ELSE NavigateReturns(k, rr, psd, out, log)

\* the test of navigate's while loop (line 288) and, when it holds, the call of
\* fetchLink, which suspends in page.goto
NavigateLoop(k, rr, psd, out, log) ==
  IF rr > 0 /\ ~psd
  THEN /\ pc' = "fetchLink"
       /\ idx' = k
       /\ retriesRemaining' = rr - 1
       /\ passed' = psd
       /\ fetch_link_output' = out
       /\ screenshotTaken' = FALSE
       /\ attempts' = log
       /\ inFlight' = (inFlight \ SettledNavigation) \cup {<<"goto", k>>}
       /\ hWorker' = [hWorker EXCEPT !.lateOps = @ \cup Late("goto", k)]
       /\ UNCHANGED followed_links
  ELSE NavigateReturns(k, rr, psd, out, log)

\* faulty variant: any response passes, whatever its status
AttemptPassed_NoStatusCheck(expected, responseOrError) ==
  isHTTPResponse(responseOrError)

\* passed, as navigate computes it after an attempt (lines 296-301)
AttemptPassed(expected, responseOrError) ==
  isHTTPResponse(responseOrError) /\ checkStatusPassing(expected, responseOrError.status)

\* faulty variant: navigate keeps the first attempt's output
KeepOutput_First(old, new) == IF old = NoOutput THEN new ELSE old

\* what navigate keeps of an attempt (line 290)
KeepOutput(old, new) == new

\* fetchLink's try/catch around page.goto (lines 328-335)
fetchLink(settled) ==
  IF settled.how = "resolved" THEN settled.value
  ELSE IF settled.value.kind = "Error" THEN settled.value ELSE Null

\* faulty variant: retriesRemaining starts at max_retries, the first attempt lost
CheckLinkStart_NoFirstAttempt(k) ==
  /\ NavigateLoop(k, options.max_retries, FALSE, NoOutput, <<>>)
  /\ startedAfterFire' = IF hTimer.fires > 0 THEN startedAfterFire + 1 ELSE startedAfterFire

\* checkLinks calls checkLink, which calls navigate (lines 272-279)
CheckLinkStart(k) ==
  /\ NavigateLoop(k, options.max_retries + 1, FALSE, NoOutput, <<>>)
  /\ startedAfterFire' = IF hTimer.fires > 0 THEN startedAfterFire + 1 ELSE startedAfterFire

\* ------------------------------------------------------------- the race

\* faulty variant: the callback does not clear the timer
ThenCallback_NoClear(sequentialPromisesfinished, timer, tlp, h) ==
  /\ timeLimitReached' = ~sequentialPromisesfinished
  /\ timeLimitTimeout' = timer
  /\ timeLimitPromise' = "resolved"
  /\ checkLinksPromise' =
       [state |-> "resolved", value |-> followed_links', error |-> NoError]
  /\ hTimer' = [h EXCEPT !.resolverCalls = @ + 1,
                         !.winner = IF sequentialPromisesfinished THEN "worker" ELSE "timer"]

\* faulty variant: timeLimitReached = sequentialPromisesfinished, the negation lost
ThenCallback_NoNegation(sequentialPromisesfinished, timer, tlp, h) ==
  /\ timeLimitReached' = sequentialPromisesfinished
  /\ timeLimitTimeout' = clearTimeout(timer)
  /\ timeLimitPromise' = "resolved"
  /\ checkLinksPromise' =
       [state |-> "resolved", value |-> followed_links', error |-> NoError]
  /\ hTimer' = [h EXCEPT !.clears = @ + 1, !.resolverCalls = @ + 1,
                         !.winner = IF sequentialPromisesfinished THEN "worker" ELSE "timer"]

\* the callback of Promise.race(...).then (lines 146-155)
ThenCallback(sequentialPromisesfinished, timer, tlp, h) ==
  /\ timeLimitReached' = ~sequentialPromisesfinished
  /\ timeLimitTimeout' = clearTimeout(timer)
  /\ timeLimitPromise' = "resolved"
  /\ checkLinksPromise' =
       [state |-> "resolved", value |-> followed_links', error |-> NoError]
  /\ hTimer' = [h EXCEPT !.clears = @ + 1, !.resolverCalls = @ + 1,
                         !.winner = IF sequentialPromisesfinished THEN "worker" ELSE "timer"]

\* faulty variant: the worker is awaited instead of raced; the timer's promise settles nothing
RaceFulfils_AwaitsWorker(value, timer, tlp, h) ==
  IF checkLinksPromise.state = "pending" /\ value
  THEN ThenCallback(value, timer, tlp, h)
  ELSE /\ timeLimitTimeout' = timer
       /\ timeLimitPromise' = tlp
       /\ hTimer' = h
       /\ UNCHANGED <<timeLimitReached, checkLinksPromise>>

\* one of the raced promises fulfils: the first settlement runs the callback
RaceFulfils(value, timer, tlp, h) ==
  IF checkLinksPromise.state = "pending"
  THEN ThenCallback(value, timer, tlp, h)
  ELSE /\ timeLimitTimeout' = timer
       /\ timeLimitPromise' = tlp
       /\ hTimer' = h
       /\ UNCHANGED <<timeLimitReached, checkLinksPromise>>

\* faulty variant: a rejection handler returns the results gathered so far
RaceRejects_Swallows(err) ==
  IF checkLinksPromise.state = "pending"
  THEN /\ checkLinksPromise' =
            [state |-> "resolved", value |-> followed_links', error |-> NoError]
       /\ hTimer' = [hTimer EXCEPT !.winner = "fault"]
       /\ UNCHANGED <<timeLimitReached, timeLimitTimeout, timeLimitPromise>>
  ELSE UNCHANGED raceVars

\* sequentialPromises() rejects: .then has no rejection handler
RaceRejects(err) ==
  IF checkLinksPromise.state = "pending"
  THEN /\ checkLinksPromise' = [state |-> "rejected", value |-> <<>>, error |-> err]
       /\ hTimer' = [hTimer EXCEPT !.winner = "fault"]
       /\ UNCHANGED <<timeLimitReached, timeLimitTimeout, timeLimitPromise>>
  ELSE UNCHANGED raceVars

\* ------------------------------------------------------------- the worker

WorkerEnds(p, k) ==
  /\ pc' = p
  /\ idx' = k
  /\ retriesRemaining' = 0
  /\ passed' = FALSE
  /\ fetch_link_output' = NoOutput
  /\ screenshotTaken' = FALSE
  /\ attempts' = <<>>
  /\ inFlight' = inFlight \ SettledNavigation
  /\ UNCHANGED <<followed_links, startedAfterFire>>

WorkerReturns(value, k) ==
  /\ WorkerEnds(IF value THEN "returnedTrue" ELSE "returnedFalse", k)
  /\ UNCHANGED hWorker
  /\ RaceFulfils(value, timeLimitTimeout, timeLimitPromise, hTimer)

WorkerThrows(err, k) ==
  /\ WorkerEnds("threw", k)
  /\ hWorker' = [hWorker EXCEPT !.faultAt = k]
  /\ RaceRejects(err)

\* faulty variant: the loop stops at the first link that failed
LoopHead_StopsOnFailure(k) ==
  IF k > Len(links) THEN "return true"
  ELSE IF timeLimitReached
          \/ (k > 1 /\ Len(followed_links) >= k - 1 /\ ~followed_links[k - 1].link_passed)
       THEN "return false"
  ELSE "checkLink"

\* faulty variant: the loop does not look at timeLimitReached
LoopHead_NoDeadlineCheck(k) ==
  IF k > Len(links) THEN "return true" ELSE "checkLink"

\* the head of `for (const link of links)` (lines 122-124)
LoopHead(k) ==
  IF k > Len(links) THEN "return true"
  ELSE IF timeLimitReached THEN "return false"
  ELSE "checkLink"

Iterate(k) ==
  CASE LoopHead(k) = "return true" -> WorkerReturns(TRUE, k)
    [] LoopHead(k) = "return false" -> WorkerReturns(FALSE, k)
    [] OTHER ->
         /\ CheckLinkStart(k)
         /\ UNCHANGED raceVars

\* ------------------------------------------------------------- actions

\* browser.newPage() and page.setCacheEnabled(false) complete
OpenNewPageDone ==
  /\ UNCHANGED <<inputs, calc, hPage>>
  /\ pc = "openNewPage"
  /\ Iterate(1)

\* openNewPage throws, outside the loop's try
OpenNewPageFails ==
  /\ UNCHANGED <<inputs, calc, hPage>>
  /\ pc = "openNewPage"
  /\ WorkerThrows(OpenPageError, 0)

\* faulty variant: navigate resets the page before it retries
FetchLinkSettles_ResetsBetweenAttempts(settled) ==
  /\ LET n == Len(attempts) + 1
         new == [responseOrError |-> fetchLink(settled),
                 linkStartTime |-> n, linkEndTime |-> n]
         out == KeepOutput(fetch_link_output, new)
         psd == AttemptPassed(expectedStatusCode(links[idx]), out.responseOrError)
         log == Append(attempts,
                  [out |-> new, target_uri |-> links[idx],
                   timeout |-> per_link_timeout_millis(links[idx])])
     IN NavigateLoop(idx, retriesRemaining, psd, out, log)
  /\ hPage' = [hPage EXCEPT !.lastGoto = settled.how, !.lastResetFailed = FALSE,
                            !.resets = IF pc' = "fetchLink" THEN @ + 1 ELSE @]
  /\ UNCHANGED <<startedAfterFire, raceVars>>

\* fetchLink returns to navigate, which tests its loop again
FetchLinkSettles(settled) ==
  /\ LET n == Len(attempts) + 1
         new == [responseOrError |-> fetchLink(settled),
                 linkStartTime |-> n, linkEndTime |-> n]
         out == KeepOutput(fetch_link_output, new)
         psd == AttemptPassed(expectedStatusCode(links[idx]), out.responseOrError)
         log == Append(attempts,
                  [out |-> new, target_uri |-> links[idx],
                   timeout |-> per_link_timeout_millis(links[idx])])
     IN NavigateLoop(idx, retriesRemaining, psd, out, log)
  /\ hPage' = [hPage EXCEPT !.lastGoto = settled.how, !.lastResetFailed = FALSE]
  /\ UNCHANGED <<startedAfterFire, raceVars>>

\* faulty variant: fetchLink has no try/catch, a rejected page.goto propagates
FetchLinkDone_NoCatch ==
  /\ UNCHANGED <<inputs, calc>>
  /\ pc = "fetchLink"
  /\ \E settled \in GotoSettlements :
       IF settled.how = "rejected"
       THEN /\ WorkerThrows(LinkError(links[idx]), idx)
            /\ hPage' = [hPage EXCEPT !.lastGoto = "rejected", !.lastResetFailed = FALSE]
       ELSE FetchLinkSettles(settled)

\* page.goto of fetchLink settles: a response, null, or an error fetchLink catches
FetchLinkDone ==
  /\ UNCHANGED <<inputs, calc>>
  /\ pc = "fetchLink"
  /\ \E settled \in GotoSettlements : FetchLinkSettles(settled)

\* uploadScreenshotToGCS resolves
UploadDone ==
  /\ UNCHANGED <<inputs, calc>>
  /\ pc = "upload"
  /\ CheckLinkReturns(idx, retriesRemaining, passed, fetch_link_output, attempts, TRUE)
  /\ hPage' = [hPage EXCEPT !.lastResetFailed = FALSE]
  /\ UNCHANGED <<startedAfterFire, raceVars>>

\* something inside checkLink throws: the catch of lines 135-140 rethrows
CheckLinkFaults ==
  /\ UNCHANGED <<inputs, calc>>
  /\ pc \in {"fetchLink", "upload"}
  /\ WorkerThrows(LinkError(links[idx]), idx)
  /\ hPage' = [hPage EXCEPT !.lastGoto = "none", !.lastResetFailed = FALSE]

\* faulty variant: gotoBlankPage has no try/catch, a failed reset propagates
\* to the catch of checkLinks
GotoBlankPageDone_NoCatch ==
  /\ UNCHANGED <<inputs, calc>>
  /\ pc = "gotoBlankPage"
  /\ \E how \in {"resolved", "rejected"} :
       /\ hPage' = [resets |-> hPage.resets + 1, lastGoto |-> "none",
                    lastResetFailed |-> (how = "rejected")]
       /\ IF how = "rejected"
          THEN WorkerThrows(LinkError(links[idx]), idx)
          ELSE Iterate(idx + 1)

\* page.goto('about:blank') settles; a failure is swallowed (lines 398-404)
GotoBlankPageDone ==
  /\ UNCHANGED <<inputs, calc>>
  /\ pc = "gotoBlankPage"
  /\ \E how \in {"resolved", "rejected"} :
       /\ hPage' = [resets |-> hPage.resets + 1, lastGoto |-> "none",
                    lastResetFailed |-> (how = "rejected")]
       /\ Iterate(idx + 1)

\* faulty variant: the timer rejects its promise instead of resolving it with false
TimerFires_Rejects ==
  /\ UNCHANGED <<inputs, calc>>
  /\ timeLimitTimeout = "armed"
  /\ UNCHANGED workerVars
  /\ timeLimitTimeout' = "fired"
  /\ timeLimitPromise' = "rejected"
  /\ UNCHANGED timeLimitReached
  /\ checkLinksPromise' =
       IF checkLinksPromise.state = "pending"
       THEN [state |-> "rejected", value |-> <<>>, error |-> NoError]
       ELSE checkLinksPromise
  /\ hTimer' = [hTimer EXCEPT
       !.fires = @ + 1,
       !.firedAt = hWorker.completed,
       !.inflightAtFire = IF pc \in {"fetchLink", "upload"} THEN idx ELSE 0,
       !.winner = IF checkLinksPromise.state = "pending" THEN "timer" ELSE @]

\* the deadline timer runs timeLimitresolver
TimerFires ==
  /\ UNCHANGED <<inputs, calc>>
  /\ timeLimitTimeout = "armed"
  /\ UNCHANGED workerVars
  /\ RaceFulfils(FALSE, "fired", "resolved",
       [hTimer EXCEPT !.fires = @ + 1, !.resolverCalls = @ + 1,
                      !.firedAt = hWorker.completed,
                      !.inflightAtFire = IF pc \in {"fetchLink", "upload"} THEN idx ELSE 0])

Next ==
  \/ OpenNewPageDone
  \/ OpenNewPageFails
  \/ FetchLinkDone
  \/ UploadDone
  \/ CheckLinkFaults
  \/ GotoBlankPageDone
  \/ TimerFires

Spec == Init /\ [][Next]_vars

\* ------------------------------------------------- getTimeLimitPromise alone

\* the offset checkLinks passes to getTimeLimitPromise (line 118)
ExtraOffsetMillis == 500

StartTimes == {0, 1000}

\* checkLinks with no links: the state the helpers are called beside
NoLinks ==
  /\ links = <<>>
  /\ options = CHOOSE o \in OptionChoices : TRUE
  /\ CheckLinksCalled

TimeLimitCalls ==
  {[op |-> "getTimeLimitPromise", state |-> "called",
    startTime |-> s, now |-> s + e,
    totalTimeoutMillis |-> ExtraOffsetMillis + t,
    delay |-> 0, due |-> 0, firedAt |-> 0] :
      s \in StartTimes, e \in 0 .. MaxElapsed, t \in 0 .. MaxSlack}

\* faulty variant: the time already used is not subtracted
TimeLimitDelay_IgnoresTimeUsed(startTime, totalTimeoutMillis, extraOffsetMillis, now) ==
  totalTimeoutMillis - extraOffsetMillis

\* the delay getTimeLimitPromise gives to setTimeout (lines 786-790);
\* now is Date.now(), startTime is new Date(startTime).getTime()
TimeLimitDelay(startTime, totalTimeoutMillis, extraOffsetMillis, now) ==
  LET timeUsed == now - startTime
  IN totalTimeoutMillis - timeUsed - extraOffsetMillis

\* setTimeout of Node.js: a delay below 1 or above 2^31 - 1 is set to 1
setTimeoutDelay(delay) ==
  IF delay < 1 \/ delay > 2147483647 THEN 1 ELSE delay

TimeLimitInit ==
  /\ NoLinks
  /\ calc \in TimeLimitCalls

\* getTimeLimitPromise runs: the promise is made and the timer armed
GetTimeLimitPromise ==
  /\ calc.op = "getTimeLimitPromise"
  /\ calc.state = "called"
  /\ LET delay == TimeLimitDelay(calc.startTime, calc.totalTimeoutMillis,
                                 ExtraOffsetMillis, calc.now)
     IN calc' = [calc EXCEPT !.state = "armed", !.delay = delay,
                             !.due = calc.now + setTimeoutDelay(delay)]
  /\ UNCHANGED mainVars

\* the timer runs timeLimitresolver as soon as it is due
TimeLimitresolver ==
  /\ calc.op = "getTimeLimitPromise"
  /\ calc.state = "armed"
  /\ calc' = [calc EXCEPT !.state = "fired", !.firedAt = calc.due]
  /\ UNCHANGED mainVars

TimeLimitNext ==
  \/ GetTimeLimitPromise
  \/ TimeLimitresolver

SpecTimeLimit == TimeLimitInit /\ [][TimeLimitNext]_vars

\* ------------------------------------------------- checkLinks called late

\* one retry-free option set: the lateness of the call is what varies
LateOptions ==
  {o \in OptionChoices : /\ o.max_retries = 0
                         /\ o.capture_condition = "ALL"
                         /\ \A u \in URIs : ~o.per_link_options[u].present}

\* the calls of getTimeLimitPromise made by checkLinks at or after the deadline
\* (total_timeout_millis - timeUsed - 500 <= 0), as they stand when
\* getTimeLimitPromise has returned: the timer is armed, due one millisecond on
LateCalls ==
  {[c EXCEPT !.state = "armed",
             !.delay = TimeLimitDelay(c.startTime, c.totalTimeoutMillis,
                                      ExtraOffsetMillis, c.now),
             !.due = c.now + setTimeoutDelay(
                       TimeLimitDelay(c.startTime, c.totalTimeoutMillis,
                                      ExtraOffsetMillis, c.now))] :
     c \in {d \in TimeLimitCalls :
              TimeLimitDelay(d.startTime, d.totalTimeoutMillis,
                             ExtraOffsetMillis, d.now) <= 0}}

\* checkLinks has run up to its return statement: the timer is armed and
\* sequentialPromises() has called openNewPage; which of the two completes
\* first is the event loop's choice
LateInit ==
  /\ links \in LinkLists
  /\ options \in LateOptions
  /\ CheckLinksCalled
  /\ calc \in LateCalls

SpecLate == LateInit /\ [][Next]_vars

\* ------------------------------------------------- parseFollowedLinks alone

\* the status codes of the results: one per class, one beside each end
ResultStatuses == {101, 200, 301, 451, 503, 600}

\* a SyntheticLinkResult as parseFollowedLinks reads it: link_passed, status_code
\* and is_origin, each of which may be absent
LinkResults ==
  {[link_passed |-> v, has_status_code |-> h, status_code |-> c, is_origin |-> o] :
      v \in {"true", "false", "undefined"}, h \in {TRUE}, c \in ResultStatuses,
      o \in BOOLEAN}
  \cup
  {[link_passed |-> v, has_status_code |-> FALSE, status_code |-> 0, is_origin |-> o] :
      v \in {"true", "false", "undefined"}, o \in BOOLEAN}

\* {} as BrokenLinksResultV1_SyntheticLinkResult
EmptyLinkResult ==
  [link_passed |-> "undefined", has_status_code |-> FALSE, status_code |-> 0,
   is_origin |-> FALSE]

\* broken_links_result before the loop (lines 558-572)
EmptyBrokenLinksResult ==
  [link_count |-> 0, passing_link_count |-> 0, failing_link_count |-> 0,
   unreachable_count |-> 0, status2xx_count |-> 0, status3xx_count |-> 0,
   status4xx_count |-> 0, status5xx_count |-> 0,
   origin_link_result |-> EmptyLinkResult, followed_link_results |-> <<>>]

\* faulty variant: Math.round for Math.floor
statusCounter_Rounds(link) ==
  LET class == IF link.has_status_code THEN (link.status_code + 50) \div 100 ELSE -1
  IN CASE class = 2 -> "status2xx_count"
       [] class = 3 -> "status3xx_count"
       [] class = 4 -> "status4xx_count"
       [] class = 5 -> "status5xx_count"
       [] OTHER -> "unreachable_count"

\* switch (Math.floor(link.status_code! / 100)) (lines 590-616); an absent
\* status_code gives NaN, which matches no case
statusCounter(link) ==
  LET class == IF link.has_status_code THEN link.status_code \div 100 ELSE -1
  IN CASE class = 2 -> "status2xx_count"
       [] class = 3 -> "status3xx_count"
       [] class = 4 -> "status4xx_count"
       [] class = 5 -> "status5xx_count"
       [] OTHER -> "unreachable_count"

\* faulty variant: the origin's result is pushed to followed_link_results too
ParseLink_OriginAlsoFollowed(r, link) ==
  IF link.link_passed = "undefined" THEN r
  ELSE LET placed == IF link.is_origin
                     THEN [r EXCEPT !.origin_link_result = link,
                                    !.followed_link_results = Append(@, link)]
                     ELSE [r EXCEPT !.followed_link_results = Append(@, link)]
           verdict == IF link.link_passed = "true"
                      THEN "passing_link_count" ELSE "failing_link_count"
       IN [placed EXCEPT !.link_count = @ + 1,
                         ![verdict] = @ + 1,
                         ![statusCounter(link)] = @ + 1]

\* faulty variant: the `continue` on an undefined link_passed is missing
ParseLink_NoSkip(r, link) ==
  LET placed == IF link.is_origin
                THEN [r EXCEPT !.origin_link_result = link]
                ELSE [r EXCEPT !.followed_link_results = Append(@, link)]
      verdict == IF link.link_passed = "true"
                 THEN "passing_link_count" ELSE "failing_link_count"
  IN [placed EXCEPT !.link_count = @ + 1,
                    ![verdict] = @ + 1,
                    ![statusCounter(link)] = @ + 1]

\* one iteration of the for loop of parseFollowedLinks (lines 574-617)
ParseLink(r, link) ==
  IF link.link_passed = "undefined" THEN r
  ELSE LET placed == IF link.is_origin
                     THEN [r EXCEPT !.origin_link_result = link]
                     ELSE [r EXCEPT !.followed_link_results = Append(@, link)]
           verdict == IF link.link_passed = "true"
                      THEN "passing_link_count" ELSE "failing_link_count"
       IN [placed EXCEPT !.link_count = @ + 1,
                         ![verdict] = @ + 1,
                         ![statusCounter(link)] = @ + 1]

RECURSIVE ParseLoop(_, _, _)
ParseLoop(list, i, r) ==
  IF i > Len(list) THEN r ELSE ParseLoop(list, i + 1, ParseLink(r, list[i]))

parseFollowedLinks(list) == ParseLoop(list, 1, EmptyBrokenLinksResult)

ParseCalls ==
  {[op |-> "parseFollowedLinks", state |-> "called", followed_links |-> l,
    broken_links_result |-> EmptyBrokenLinksResult] :
      l \in UNION { [1 .. n -> LinkResults] : n \in 0 .. MaxResults }}

ParseInit ==
  /\ NoLinks
  /\ calc \in ParseCalls

\* parseFollowedLinks runs and returns
ParseFollowedLinks ==
  /\ calc.op = "parseFollowedLinks"
  /\ calc.state = "called"
  /\ calc' = [calc EXCEPT !.state = "returned",
                          !.broken_links_result = parseFollowedLinks(calc.followed_links)]
  /\ UNCHANGED mainVars

ParseNext == ParseFollowedLinks

SpecParse == ParseInit /\ [][ParseNext]_vars

\* ------------------------------------ checkLink's results, then the counts

\* the links of a run: the origin first, then the links followed
CountsIndex == 1 .. 5
CountsStatuses == {200, 304, 404}

\* the per-link options of the run: one followed link expects exactly 304
CountsPerLink(override, i) ==
  IF i = override THEN PerLink(TRUE, StatusValue(304), FALSE, 0) ELSE NoPerLink

\* expectedStatusCode of checkLink (lines 179-183) for one entry of per_link_options
expectedStatusCodeOf(per_link) ==
  IF per_link.present /\ per_link.has_expected
  THEN per_link.expected_status_code
  ELSE StatusClass("STATUS_CLASS_2XX")

\* faulty variant: the per-link expectation is not looked at
LinkResultOf_IgnoresPerLink(per_link, status, isOrigin) ==
  [link_passed |-> IF AttemptPassed(expectedStatusCodeOf(NoPerLink), HTTPResponse(status))
                   THEN "true" ELSE "false",
   has_status_code |-> TRUE, status_code |-> status, is_origin |-> isOrigin]

\* what parseFollowedLinks reads of the result checkLink returns for a link
\* that answered with a response (lines 233-247)
LinkResultOf(per_link, status, isOrigin) ==
  [link_passed |-> IF AttemptPassed(expectedStatusCodeOf(per_link), HTTPResponse(status))
                   THEN "true" ELSE "false",
   has_status_code |-> TRUE, status_code |-> status, is_origin |-> isOrigin]

CountsCalls ==
  {[op |-> "counts", state |-> "called", statuses |-> s, override |-> o,
    followed_links |-> <<>>, broken_links_result |-> EmptyBrokenLinksResult] :
      s \in [CountsIndex -> CountsStatuses], o \in CountsIndex \ {1}}

CountsInit ==
  /\ NoLinks
  /\ calc \in CountsCalls

\* every link has been checked and has answered
CountsLinksChecked ==
  /\ calc.op = "counts"
  /\ calc.state = "called"
  /\ calc' = [calc EXCEPT
       !.state = "checked",
       !.followed_links =
          [i \in CountsIndex |->
             LinkResultOf(CountsPerLink(calc.override, i), calc.statuses[i], i = 1)]]
  /\ UNCHANGED mainVars

\* createSyntheticResult calls parseFollowedLinks on the results
CountsAggregated ==
  /\ calc.op = "counts"
  /\ calc.state = "checked"
  /\ calc' = [calc EXCEPT
       !.state = "aggregated",
       !.broken_links_result = parseFollowedLinks(calc.followed_links)]
  /\ UNCHANGED mainVars

CountsNext ==
  \/ CountsLinksChecked
  \/ CountsAggregated

SpecCounts == CountsInit /\ [][CountsNext]_vars

\* ------------------------------------------------- the times of a result

\* a time as a string: the instant it denotes, in milliseconds, and the form
\* it is written in. Date.prototype.toISOString writes YYYY-MM-DDTHH:mm:ss.sssZ;
\* an ISO 8601 string may also leave out the milliseconds or give an offset.
TimeForms == {"toISOString", "no milliseconds", "offset"}
TimeString(ms, form) == [ms |-> ms, form |-> form]

\* new Date(ms).toISOString()
toISOString(ms) == TimeString(ms, "toISOString")

\* new Date(s).getTime()
getTime(s) == s.ms

\* the start times a caller passes, and the clock when the helper runs
TimeCalls ==
  {[start |-> TimeString(s, f), now |-> s + e] :
      s \in StartTimes, f \in TimeForms, e \in 0 .. MaxElapsed}

\* getEndTime (lines 817-823): the strings are compared, not the instants
getEndTime(startTime, now) ==
  IF toISOString(now) = startTime THEN toISOString(now + 1) ELSE toISOString(now)

\* faulty variant: createSyntheticResult takes its end_time from getEndTime
ReportEndTime_Advances(start_time, now) == getEndTime(start_time, now)

\* end_time of createSyntheticResult (line 656)
ReportEndTime(start_time, now) == toISOString(now)

ReportCalls ==
  {[op |-> "createSyntheticResult", state |-> "called",
    start_time |-> t.start, now |-> t.now, followed_links |-> l,
    synthetic_result |-> [start_time |-> t.start, end_time |-> t.start,
                          synthetic_broken_links_result_v1 |-> EmptyBrokenLinksResult]] :
      t \in TimeCalls,
      l \in UNION { [1 .. n -> LinkResults] : n \in 0 .. MaxReportResults }}

ReportInit ==
  /\ NoLinks
  /\ calc \in ReportCalls

\* createSyntheticResult runs and returns (lines 631-660)
CreateSyntheticResult ==
  /\ calc.op = "createSyntheticResult"
  /\ calc.state = "called"
  /\ calc' = [calc EXCEPT
       !.state = "returned",
       !.synthetic_result =
          [start_time |-> calc.start_time,
           end_time |-> ReportEndTime(calc.start_time, calc.now),
           synthetic_broken_links_result_v1 |-> parseFollowedLinks(calc.followed_links)]]
  /\ UNCHANGED mainVars

ReportNext == CreateSyntheticResult

SpecReport == ReportInit /\ [][ReportNext]_vars

GenericCalls ==
  {[op |-> "getGenericSyntheticResult", state |-> "called",
    startTime |-> t.start, now |-> t.now, genericErrorMessage |-> m,
    synthetic_result |-> [start_time |-> t.start, end_time |-> t.start,
                          ok |-> TRUE, error_message |-> ""]] :
      t \in TimeCalls, m \in {"", "message"}}

GenericInit ==
  /\ NoLinks
  /\ calc \in GenericCalls

\* getGenericSyntheticResult runs and returns (lines 807-815)
GetGenericSyntheticResult ==
  /\ calc.op = "getGenericSyntheticResult"
  /\ calc.state = "called"
  /\ calc' = [calc EXCEPT
       !.state = "returned",
       !.synthetic_result =
          [start_time |-> calc.startTime,
           end_time |-> getEndTime(calc.startTime, calc.now),
           ok |-> FALSE, error_message |-> calc.genericErrorMessage]]
  /\ UNCHANGED mainVars

GenericNext == GetGenericSyntheticResult

SpecGeneric == GenericInit /\ [][GenericNext]_vars

\* ------------------------------------------------- checkStatusPassing alone

\* ResponseStatusCode.StatusClass, and "unset" for a status_class that is absent
StatusClasses ==
  {"unset", "STATUS_CLASS_UNSPECIFIED", "STATUS_CLASS_1XX", "STATUS_CLASS_2XX",
   "STATUS_CLASS_3XX", "STATUS_CLASS_4XX", "STATUS_CLASS_5XX", "STATUS_CLASS_ANY"}

ExpectedValues == {200, 250, 404}

\* the expectations: a status_value, a status_class, both, or neither
Expectations ==
  {[has_value |-> TRUE, status_value |-> v, status_class |-> c] :
      v \in ExpectedValues, c \in StatusClasses}
  \cup {StatusClass(c) : c \in StatusClasses}

StatusCalls ==
  {[op |-> "checkStatusPassing", state |-> "called", expected |-> e, actual |-> a,
    result |-> FALSE] : e \in Expectations, a \in 0 .. MaxStatus}

StatusInit ==
  /\ NoLinks
  /\ calc \in StatusCalls

\* checkStatusPassing runs and returns
CheckStatusPassing ==
  /\ calc.op = "checkStatusPassing"
  /\ calc.state = "called"
  /\ calc' = [calc EXCEPT !.state = "returned",
                          !.result = checkStatusPassing(calc.expected, calc.actual)]
  /\ UNCHANGED mainVars

StatusNext == CheckStatusPassing

SpecStatus == StatusInit /\ [][StatusNext]_vars

\* ------------------------------------------------- shuffleAndTruncate alone

\* BrokenLinkCheckerOptions.LinkOrder
LinkOrders == {"LINK_ORDER_UNSPECIFIED", "FIRST_N", "RANDOM"}

\* k links found on the origin page, each with its own target_uri
LinksFound(k) == [i \in 1 .. k |-> [target_uri |-> i]]

\* faulty variant: positions are drawn with repeats, not sorted into an order
Orderings_WithRepeats(k) == [1 .. k -> 1 .. k]

\* the orders a sort by Math.random() keys can give k elements
Orderings(k) ==
  {p \in [1 .. k -> 1 .. k] : \A i, j \in 1 .. k : p[i] = p[j] => i = j}

\* faulty variant: slice stops one element early
slice_DropsLast(list, end) ==
  LET n == Len(list)
      stop == IF end < 0
              THEN (IF n + end < 0 THEN 0 ELSE n + end)
              ELSE (IF end > n THEN n ELSE end)
  IN SubSeq(list, 1, stop - 1)

\* Array.prototype.slice(0, end): a negative end counts from the end of the
\* array, an end beyond the array stops at its length
slice(list, end) ==
  LET n == Len(list)
      stop == IF end < 0
              THEN (IF n + end < 0 THEN 0 ELSE n + end)
              ELSE (IF end > n THEN n ELSE end)
  IN SubSeq(list, 1, stop)

\* faulty variant: the links are shuffled whatever link_order is
LinksToFollow_AlwaysShuffles(list, link_order, p) ==
  [i \in 1 .. Len(list) |-> list[p[i]]]

\* linksToFollow of shuffleAndTruncate (lines 680-686); p is the order the
\* random keys give
LinksToFollow(list, link_order, p) ==
  IF link_order = "RANDOM"
  THEN [i \in 1 .. Len(list) |-> list[p[i]]]
  ELSE list

\* faulty variant: no slot is kept for the origin, slice(0, link_limit)
Truncate_NoOriginSlot(linksToFollow, link_limit) == slice(linksToFollow, link_limit)

\* the return of shuffleAndTruncate (line 689)
Truncate(linksToFollow, link_limit) == slice(linksToFollow, link_limit - 1)

ShuffleCalls ==
  {[op |-> "shuffleAndTruncate", state |-> "called", links |-> LinksFound(k),
    link_limit |-> l, link_order |-> o, result |-> <<>>] :
      k \in 0 .. MaxFound, l \in 1 .. MaxLimit, o \in LinkOrders}

ShuffleInit ==
  /\ NoLinks
  /\ calc \in ShuffleCalls

\* shuffleAndTruncate runs and returns
ShuffleAndTruncate ==
  /\ calc.op = "shuffleAndTruncate"
  /\ calc.state = "called"
  /\ \E p \in Orderings(Len(calc.links)) :
       calc' = [calc EXCEPT
         !.state = "returned",
         !.result = Truncate(LinksToFollow(calc.links, calc.link_order, p),
                             calc.link_limit)]
  /\ UNCHANGED mainVars

ShuffleNext == ShuffleAndTruncate

SpecShuffle == ShuffleInit /\ [][ShuffleNext]_vars

\* ------------------------------------------------------------- properties

\* navigate has returned to checkLink and its locals are still in scope
NavigateReturned == pc \in {"upload", "gotoBlankPage"}

\* an attempt whose outcome is a response with a status the link's expectation accepts
Passing(a) ==
  /\ a.out.responseOrError.kind = "HTTPResponse"
  /\ checkStatusPassing(expectedStatusCode(a.target_uri), a.out.responseOrError.status)

\* C1: when the deadline timer fires while the run is in flight, with exactly m
\* link checks completed, checkLinks resolves (it does not reject) with a list of
\* exactly m LinkResults. (A timer that fires after a fault has already rejected
\* checkLinks is not a deadline cutting the run: winner = "fault".)
C1_DeadlinePartialCompletion ==
  (hTimer.fires > 0 /\ hTimer.winner # "fault") =>
    /\ checkLinksPromise.state = "resolved"
    /\ Len(checkLinksPromise.value) = hTimer.firedAt

C1_Witness ==
  /\ hTimer.winner = "timer"
  /\ checkLinksPromise.state = "resolved"
  /\ Len(links) = 2
  /\ hTimer.firedAt = 1
  /\ hTimer.inflightAtFire = 2
  /\ Len(checkLinksPromise.value) = 1

\* C2: checkLinks has settled whenever the deadline timer has fired; it does
\* not wait for the link check in flight.
C2_SettledWhenTimerFired ==
  timeLimitTimeout = "fired" => checkLinksPromise.state # "pending"

C2_Witness ==
  /\ timeLimitTimeout = "fired"
  /\ checkLinksPromise.state = "resolved"
  /\ pc = "fetchLink"
  /\ idx = 1

\* C3: once the deadline timer has fired the worker starts no new link check,
\* and at most one link check, the one in flight when the timer fired,
\* completes afterwards.
C3_NoStartAfterDeadline ==
  /\ startedAfterFire = 0
  /\ hWorker.completedAfterFire <= 1
  /\ hWorker.completedAfterFire = 1 =>
       /\ hTimer.inflightAtFire = hTimer.firedAt + 1
       /\ hWorker.completed = hTimer.inflightAtFire

C3_Witness ==
  /\ hTimer.fires = 1
  /\ pc = "returnedFalse"
  /\ hWorker.completedAfterFire = 1
  /\ Len(followed_links) = 1
  /\ Len(links) = 2

\* C4: in every reachable state the result list is the image of a prefix of
\* the input list: the i-th result has the target_uri of the i-th link.
C4_ResultsArePrefixImage ==
  /\ Len(followed_links) <= Len(links)
  /\ \A n \in 1 .. Len(followed_links) : followed_links[n].target_uri = links[n]
  /\ Len(checkLinksPromise.value) <= Len(followed_links)
  /\ \A n \in 1 .. Len(checkLinksPromise.value) :
       checkLinksPromise.value[n] = followed_links[n]

C4_Witness ==
  /\ Len(followed_links) = 2
  /\ links[1] # links[2]
  /\ followed_links[1].link_passed # followed_links[2].link_passed

\* C5 as stated: after a link check faults, one error names the faulting link
\* and the results produced before the fault are returned to the caller
\* (stated for a fault after at least one result, with max_retries >= 0).
C5_Original ==
  (hWorker.faultAt > 1 /\ options.max_retries >= 0) =>
    /\ checkLinksPromise.error = LinkError(links[hWorker.faultAt])
    /\ checkLinksPromise.state = "resolved"
    /\ checkLinksPromise.value = followed_links

\* C5 amended: a link check that faults while checkLinks is pending ends the
\* worker (no further link is checked) and rejects checkLinks with one error
\* naming the faulting link; the rejection carries no results.
C5_FaultRejects ==
  hWorker.faultAt > 0 =>
    /\ pc = "threw"
    /\ Len(followed_links) = hWorker.faultAt - 1
    /\ hTimer.winner = "fault" =>
         /\ checkLinksPromise.state = "rejected"
         /\ checkLinksPromise.error = LinkError(links[hWorker.faultAt])
         /\ checkLinksPromise.value = <<>>

C5_Witness ==
  /\ hWorker.faultAt = 2
  /\ hTimer.winner = "fault"
  /\ Len(followed_links) = 1
  /\ checkLinksPromise.state = "rejected"

\* C6: once checkLinks has resolved, by the timer or by the worker, the timer
\* is not pending, clearTimeout has been called exactly once, and the timer
\* has run its callback at most once (not at all when the worker won); the
\* resolver runs no more after the callback of the race has called it.
C6_TimerReleasedOnce ==
  checkLinksPromise.state = "resolved" =>
    /\ timeLimitTimeout # "armed"
    /\ hTimer.clears = 1
    /\ hTimer.fires <= 1
    /\ hTimer.resolverCalls = hTimer.fires + 1
    /\ hTimer.winner = "worker" => (hTimer.fires = 0 /\ timeLimitTimeout = "cleared")
    /\ hTimer.winner = "timer" => (hTimer.fires = 1 /\ timeLimitTimeout = "fired")

C6_Witness ==
  /\ checkLinksPromise.state = "resolved"
  /\ hTimer.winner = "worker"
  /\ timeLimitTimeout = "cleared"
  /\ Len(followed_links) = 2

\* C7 as stated: after checkLinks has resolved the worker performs no further
\* navigation, screenshot upload or page reset (stated for max_retries >= 0).
C7_Original ==
  (checkLinksPromise.state = "resolved" /\ options.max_retries >= 0) =>
    hWorker.lateOps = {}

\* C7 amended: the link check in flight when the timer wins is not disposed;
\* what the worker does after checkLinks has resolved (fetch attempts, the
\* screenshot upload, the page reset) is confined to that one link.
C7_LateWorkConfined ==
  \A op \in hWorker.lateOps :
    /\ hTimer.winner = "timer"
    /\ hTimer.inflightAtFire > 0
    /\ op[2] = hTimer.inflightAtFire

C7_Witness ==
  \E k \in 1 .. Len(links) :
    /\ hWorker.lateOps = {<<"goto", k>>, <<"upload", k>>, <<"reset", k>>}
    /\ pc = "returnedFalse"

\* C8: navigate with max_retries = R >= 0 performs at most R+1 attempts and none
\* after a passing one: when it returns, the attempts number min(k, R+1) with k
\* the first passing attempt, every failed attempt (error or non-matching
\* status) has consumed one retry, and retriesRemaining = R+1 - attempts.
C8_RetryTermination ==
  options.max_retries >= 0 =>
    /\ pc = "fetchLink" =>
         /\ Len(attempts) + 1 <= options.max_retries + 1
         /\ \A n \in 1 .. Len(attempts) : ~Passing(attempts[n])
         /\ retriesRemaining = options.max_retries + 1 - (Len(attempts) + 1)
    /\ NavigateReturned =>
         /\ Len(attempts) >= 1
         /\ Len(attempts) <= options.max_retries + 1
         /\ \A n \in 1 .. Len(attempts) - 1 : ~Passing(attempts[n])
         /\ Passing(attempts[Len(attempts)]) \/ Len(attempts) = options.max_retries + 1
         /\ retriesRemaining = options.max_retries + 1 - Len(attempts)

C8_Witness ==
  /\ NavigateReturned
  /\ options.max_retries = 1
  /\ Len(attempts) = 2
  /\ attempts[1].out.responseOrError.kind = "Error"
  /\ attempts[2].out.responseOrError = HTTPResponse(404)
  /\ ~Passing(attempts[2])
  /\ retriesRemaining = 0

\* C9: when no attempt of navigate passes, the outcome it returns
\* (responseOrError, start and end time) is the last attempt's.
C9_LastAttemptReturned ==
  (NavigateReturned /\ options.max_retries >= 0 /\ ~passed) =>
    fetch_link_output = attempts[Len(attempts)].out

C9_Witness ==
  /\ NavigateReturned
  /\ ~passed
  /\ Len(attempts) = 2
  /\ attempts[1].out.responseOrError.kind = "Error"
  /\ fetch_link_output.responseOrError = HTTPResponse(404)
  /\ fetch_link_output.linkStartTime = 2

\* C10: navigate returns passed = true exactly when its final attempt yielded a
\* response (not an error, not null) whose status satisfies the expected
\* status under checkStatusPassing.
C10_PassedIffResponseMatches ==
  NavigateReturned =>
    (passed <=>
       /\ Len(attempts) > 0
       /\ attempts[Len(attempts)].out.responseOrError.kind \notin {"Error", "null"}
       /\ checkStatusPassing(expectedStatusCode(links[idx]),
                             attempts[Len(attempts)].out.responseOrError.status))

C10_Witness ==
  /\ NavigateReturned
  /\ passed
  /\ Len(attempts) = 2
  /\ attempts[1].out.responseOrError = Null
  /\ expectedStatusCode(links[idx]) = StatusValue(404)

\* the last attempt navigate has made for the link being checked
LastAttempt == attempts[Len(attempts)]

\* C11: a page.goto that rejects (timeout, DNS, TLS, reset) makes neither
\* fetchLink, navigate nor checkLink throw: the worker goes on, the rejection is
\* the attempt's outcome (the Error, or null when what was thrown is no Error),
\* the attempt does not pass, and it costs one retry: either the next attempt
\* has started or navigate returned a failure with no retry left.
C11_TransportFailureCaptured ==
  hPage.lastGoto = "rejected" =>
    /\ pc \in {"fetchLink", "upload", "gotoBlankPage"}
    /\ checkLinksPromise.state # "rejected"
    /\ Len(attempts) >= 1
    /\ LastAttempt.out.responseOrError.kind \in {"Error", "null"}
    /\ ~Passing(LastAttempt)
    /\ retriesRemaining =
         options.max_retries + 1 - Len(attempts) - (IF pc = "fetchLink" THEN 1 ELSE 0)
    /\ (NavigateReturned =>
          /\ ~passed
          /\ retriesRemaining = 0
          /\ fetch_link_output = LastAttempt.out)

C11_Witness ==
  /\ hPage.lastGoto = "rejected"
  /\ NavigateReturned
  /\ Len(attempts) = 2
  /\ attempts[1].out.responseOrError.kind = "Error"
  /\ fetch_link_output.responseOrError.kind = "Error"

\* C12: a link that failed for good is a result with link_passed = false, and
\* the batch goes on: when the timer has not fired and nothing threw, a worker
\* that has ended has returned true and checkLinks resolved with one result
\* per link, in the order of the links, however many of them failed.
C12_FailuresDoNotAbort ==
  /\ (pc = "gotoBlankPage" =>
        /\ Len(followed_links) = idx
        /\ followed_links[idx].target_uri = links[idx]
        /\ followed_links[idx].link_passed = passed)
  /\ ((pc \in {"returnedTrue", "returnedFalse"} /\ hTimer.fires = 0) =>
        /\ pc = "returnedTrue"
        /\ checkLinksPromise.state = "resolved"
        /\ Len(checkLinksPromise.value) = Len(links)
        /\ \A i \in 1 .. Len(links) : checkLinksPromise.value[i].target_uri = links[i])

C12_Witness ==
  /\ pc = "returnedTrue"
  /\ hTimer.fires = 0
  /\ Len(links) = 2
  /\ Len(checkLinksPromise.value) = 2
  /\ ~checkLinksPromise.value[1].link_passed
  /\ checkLinksPromise.value[1].error_type = "TimeoutError"
  /\ ~checkLinksPromise.value[2].link_passed
  /\ checkLinksPromise.value[2].has_status_code

\* C13: the page is reset between links: while link idx is being checked the
\* idx - 1 link checks before it have each been followed by a reset that
\* settled, and a completed link check is followed by its reset, which is in
\* flight before anything else starts.
C13_ResetBetweenLinks ==
  /\ (pc \in {"fetchLink", "upload"} =>
        /\ hWorker.completed = idx - 1
        /\ hPage.resets = hWorker.completed)
  /\ (pc = "gotoBlankPage" =>
        /\ hWorker.completed = idx
        /\ hPage.resets = idx - 1
        /\ inFlight = {<<"reset", idx>>})

C13_Witness ==
  /\ pc = "fetchLink"
  /\ idx = 2
  /\ hWorker.completed = 1
  /\ hPage.resets = 1

\* C14 as stated: a retry starts only after a reset that followed the attempt
\* before it, so the resets made by then number the links and attempts before.
C14_Original ==
  (pc = "fetchLink" /\ Len(attempts) >= 1) =>
     hPage.resets >= (idx - 1) + Len(attempts)

\* C14: navigate makes no reset between the attempts of one link: a retry is in
\* flight right after the attempt before it, and the resets made by then are
\* those that followed the links before.
C14_NoResetBetweenAttempts ==
  (pc \in {"fetchLink", "upload"} /\ Len(attempts) >= 1) =>
     /\ hPage.resets = idx - 1
     /\ \A n \in 1 .. Len(attempts) : attempts[n].target_uri = links[idx]
     /\ (pc = "fetchLink" => inFlight = {<<"goto", idx>>})

C14_Witness ==
  /\ pc = "fetchLink"
  /\ idx = 2
  /\ Len(attempts) = 1
  /\ hPage.resets = 1

\* C15: a reset that fails is swallowed: nothing is thrown, checkLinks is not
\* rejected, the result of the link just checked is kept, and the worker is
\* where a reset that succeeded would have put it: at the next link, or
\* returned because the links are done or the time limit is reached.
C15_ResetFailureSwallowed ==
  hPage.lastResetFailed =>
    /\ pc # "threw"
    /\ hWorker.faultAt = 0
    /\ checkLinksPromise.state # "rejected"
    /\ idx >= 2
    /\ Len(followed_links) >= idx - 1
    /\ followed_links[idx - 1].target_uri = links[idx - 1]
    /\ (pc = "returnedTrue" <=> idx > Len(links))
    /\ (pc = "returnedFalse" => timeLimitReached)

C15_Witness ==
  /\ hPage.lastResetFailed
  /\ pc = "fetchLink"
  /\ idx = 2
  /\ Len(followed_links) = 1

C17_Original ==
  (calc.op = "getTimeLimitPromise" /\ calc.state = "fired") =>
     calc.firedAt = calc.startTime + calc.totalTimeoutMillis - ExtraOffsetMillis

\* C17: the timer is armed for totalTimeoutMillis - (now - startTime) - 500;
\* when that is at least 1 ms the timer is due at startTime +
\* totalTimeoutMillis - 500 whatever time has been used; when it is not, the
\* call came at or after that time and the timer is due 1 ms after the call.
C17_TimerDue ==
  (calc.op = "getTimeLimitPromise" /\ calc.state \in {"armed", "fired"}) =>
     LET deadline == calc.startTime + calc.totalTimeoutMillis - ExtraOffsetMillis
     IN /\ calc.delay = calc.totalTimeoutMillis - (calc.now - calc.startTime)
                          - ExtraOffsetMillis
        /\ (calc.delay >= 1 => calc.due = deadline)
        /\ (calc.delay < 1 => calc.due = calc.now + 1 /\ calc.due > deadline)
        /\ (calc.state = "fired" => calc.firedAt = calc.due)

C17_Witness ==
  /\ calc.op = "getTimeLimitPromise"
  /\ calc.state = "fired"
  /\ calc.now > calc.startTime
  /\ calc.delay >= 1
  /\ calc.firedAt = calc.startTime + calc.totalTimeoutMillis - ExtraOffsetMillis

\* parseFollowedLinks has returned
Parsed == calc.op = "parseFollowedLinks" /\ calc.state = "returned"

\* the number of results of the list that satisfy P
Count(list, P(_)) == Cardinality({i \in 1 .. Len(list) : P(list[i])})

Counted(link) == link.link_passed # "undefined"
CountedPassing(link) == link.link_passed = "true"
CountedFailing(link) == link.link_passed = "false"
CountedFollowed(link) == Counted(link) /\ ~link.is_origin
CountedOrigin(link) == Counted(link) /\ link.is_origin

\* C18: link_count is the number of results whose link_passed is defined, and
\* equals passing_link_count + failing_link_count, which count the true and the
\* false verdicts; a result with an undefined link_passed is skipped whole: it
\* is in no counter, it is not in followed_link_results and it is not
\* origin_link_result, so the aggregate is that of the list without it.
C18_TotalsCountDefinedVerdicts ==
  Parsed =>
    LET fl == calc.followed_links
        r == calc.broken_links_result
    IN /\ r.link_count = Count(fl, Counted)
       /\ r.link_count = r.passing_link_count + r.failing_link_count
       /\ r.passing_link_count = Count(fl, CountedPassing)
       /\ r.failing_link_count = Count(fl, CountedFailing)
       /\ r.followed_link_results = SelectSeq(fl, CountedFollowed)
       /\ (Count(fl, CountedOrigin) = 0 => r.origin_link_result = EmptyLinkResult)
       /\ (Count(fl, CountedOrigin) > 0 => CountedOrigin(r.origin_link_result))
       /\ r = parseFollowedLinks(SelectSeq(fl, Counted))

C18_Witness ==
  /\ Parsed
  /\ Len(calc.followed_links) = 2
  /\ calc.followed_links[1].link_passed = "undefined"
  /\ calc.followed_links[1].is_origin
  /\ calc.followed_links[2].link_passed = "false"
  /\ calc.broken_links_result.link_count = 1
  /\ calc.broken_links_result.failing_link_count = 1

In2xx(link) == Counted(link) /\ link.has_status_code /\ link.status_code \div 100 = 2
In3xx(link) == Counted(link) /\ link.has_status_code /\ link.status_code \div 100 = 3
In4xx(link) == Counted(link) /\ link.has_status_code /\ link.status_code \div 100 = 4
In5xx(link) == Counted(link) /\ link.has_status_code /\ link.status_code \div 100 = 5
InNoClass(link) ==
  Counted(link) /\ ~In2xx(link) /\ ~In3xx(link) /\ ~In4xx(link) /\ ~In5xx(link)

\* C19: every counted result is in exactly one of the five counters, chosen by
\* floor(status_code / 100): 2, 3, 4 and 5 give the four class counters, any
\* other value and an absent status give unreachable_count; the five counters
\* add up to link_count.
C19_OneCounterPerResult ==
  Parsed =>
    LET fl == calc.followed_links
        r == calc.broken_links_result
    IN /\ r.status2xx_count = Count(fl, In2xx)
       /\ r.status3xx_count = Count(fl, In3xx)
       /\ r.status4xx_count = Count(fl, In4xx)
       /\ r.status5xx_count = Count(fl, In5xx)
       /\ r.unreachable_count = Count(fl, InNoClass)
       /\ r.unreachable_count + r.status2xx_count + r.status3xx_count
            + r.status4xx_count + r.status5xx_count = r.link_count

C19_Witness ==
  /\ Parsed
  /\ Len(calc.followed_links) = 2
  /\ calc.followed_links[1].link_passed = "false"
  /\ calc.followed_links[1].has_status_code
  /\ calc.followed_links[1].status_code = 451
  /\ calc.followed_links[2].link_passed = "false"
  /\ ~calc.followed_links[2].has_status_code
  /\ calc.broken_links_result.status4xx_count = 1
  /\ calc.broken_links_result.unreachable_count = 1

Reached(link) ==
  Counted(link) /\ link.has_status_code /\ link.status_code >= 100 /\ link.status_code <= 599
NotReached(link) == Counted(link) /\ ~Reached(link)

\* C20 as stated: unreachable_count counts the results with no status or a
\* status outside 100..599, and every counted result with a status in 100..599
\* is in one of the class counters.
C20_Original ==
  Parsed =>
    LET fl == calc.followed_links
        r == calc.broken_links_result
    IN /\ r.unreachable_count = Count(fl, NotReached)
       /\ r.status2xx_count + r.status3xx_count + r.status4xx_count
            + r.status5xx_count = Count(fl, Reached)

\* C21: a counted result with is_origin goes to origin_link_result (the last one,
\* were there several) and never to followed_link_results, which holds the
\* counted results without is_origin in the order of the input; the origin is
\* counted: with one counted origin link_count is 1 + Len(followed_link_results).
C21_OriginKeptApart ==
  Parsed =>
    LET fl == calc.followed_links
        r == calc.broken_links_result
        origins == SelectSeq(fl, CountedOrigin)
    IN /\ \A i \in 1 .. Len(r.followed_link_results) :
            ~r.followed_link_results[i].is_origin
       /\ r.followed_link_results = SelectSeq(fl, CountedFollowed)
       /\ (Len(origins) > 0 => r.origin_link_result = origins[Len(origins)])
       /\ r.link_count = Len(origins) + Len(r.followed_link_results)
       /\ (Len(origins) = 1 => r.link_count = 1 + Len(r.followed_link_results))

C21_Witness ==
  /\ Parsed
  /\ Len(calc.followed_links) = 2
  /\ CountedOrigin(calc.followed_links[1])
  /\ CountedFollowed(calc.followed_links[2])
  /\ calc.broken_links_result.origin_link_result = calc.followed_links[1]
  /\ calc.broken_links_result.followed_link_results = <<calc.followed_links[2]>>
  /\ calc.broken_links_result.link_count = 2

\* the run of C22: the origin answers 200, the followed links 200, 200, 304 (the
\* one that expects exactly 304) and 404, and the counts have been made
CountsScenario ==
  /\ calc.op = "counts"
  /\ calc.state = "aggregated"
  /\ calc.statuses = <<200, 200, 200, 304, 404>>
  /\ calc.override = 4

\* C22 as stated: the run yields passing_link_count = 3 beside link_count = 5
\* and failing_link_count = 1.
C22_Original ==
  CountsScenario =>
    /\ calc.broken_links_result.link_count = 5
    /\ calc.broken_links_result.passing_link_count = 3
    /\ calc.broken_links_result.failing_link_count = 1
    /\ calc.broken_links_result.status2xx_count = 3
    /\ calc.broken_links_result.status3xx_count = 1
    /\ calc.broken_links_result.status4xx_count = 1

\* C22: the run yields link_count = 5, passing_link_count = 4 (the origin and
\* the links that answered 200, 200 and 304), failing_link_count = 1,
\* status2xx_count = 3, status3xx_count = 1, status4xx_count = 1, and nothing
\* in status5xx_count and unreachable_count.
C22_ScenarioCounts ==
  CountsScenario =>
    /\ calc.broken_links_result.link_count = 5
    /\ calc.broken_links_result.passing_link_count = 4
    /\ calc.broken_links_result.failing_link_count = 1
    /\ calc.broken_links_result.status2xx_count = 3
    /\ calc.broken_links_result.status3xx_count = 1
    /\ calc.broken_links_result.status4xx_count = 1
    /\ calc.broken_links_result.status5xx_count = 0
    /\ calc.broken_links_result.unreachable_count = 0
    /\ Len(calc.broken_links_result.followed_link_results) = 4

C22_Witness ==
  /\ CountsScenario
  /\ calc.followed_links[4].link_passed = "true"
  /\ calc.followed_links[5].link_passed = "false"
  /\ calc.broken_links_result.origin_link_result.link_passed = "true"
  /\ calc.broken_links_result.link_count = 5

\* createSyntheticResult has returned
ReportReturned == calc.op = "createSyntheticResult" /\ calc.state = "returned"

\* C23 as stated: the end_time of the report is strictly after its start_time.
C23_Original ==
  ReportReturned =>
    getTime(calc.synthetic_result.end_time) > getTime(calc.synthetic_result.start_time)

\* C23: the report's start_time is the caller's, its end_time is the clock when
\* createSyntheticResult runs, written by toISOString and not advanced: with a
\* clock that is not before start_time, end_time is not before start_time, and
\* it is the same instant when the clock reads start_time.
C23_EndTimeIsClock ==
  ReportReturned =>
    /\ calc.synthetic_result.start_time = calc.start_time
    /\ calc.synthetic_result.end_time = toISOString(calc.now)
    /\ getTime(calc.synthetic_result.end_time) >= getTime(calc.synthetic_result.start_time)
    /\ (calc.now = getTime(calc.start_time) =>
          getTime(calc.synthetic_result.end_time)
            = getTime(calc.synthetic_result.start_time))
    /\ calc.synthetic_result.synthetic_broken_links_result_v1
         = parseFollowedLinks(calc.followed_links)

C23_Witness ==
  /\ ReportReturned
  /\ calc.start_time.form = "toISOString"
  /\ calc.now = getTime(calc.start_time)
  /\ calc.synthetic_result.end_time = calc.synthetic_result.start_time

\* getGenericSyntheticResult has returned
GenericReturned == calc.op = "getGenericSyntheticResult" /\ calc.state = "returned"

\* C24 as stated: for every startTime not later than the clock, end_time is at
\* least 1 ms after start_time.
C24_Original ==
  GenericReturned =>
    getTime(calc.synthetic_result.end_time)
      >= getTime(calc.synthetic_result.start_time) + 1

\* checkStatusPassing has returned
StatusReturned == calc.op = "checkStatusPassing" /\ calc.state = "returned"

\* the hundred a class band names
Band(class) ==
  CASE class = "STATUS_CLASS_1XX" -> 1
    [] class = "STATUS_CLASS_2XX" -> 2
    [] class = "STATUS_CLASS_3XX" -> 3
    [] class = "STATUS_CLASS_4XX" -> 4
    [] class = "STATUS_CLASS_5XX" -> 5
    [] OTHER -> 0

\* C25: for an expectation that is a class band B in 1..5 (no status_value),
\* checkStatusPassing is true exactly when 100 * B <= actual <= 100 * B + 99.
C25_ClassBand ==
  (StatusReturned /\ ~calc.expected.has_value /\ Band(calc.expected.status_class) > 0) =>
     (calc.result <=>
        (/\ 100 * Band(calc.expected.status_class) <= calc.actual
         /\ calc.actual <= 100 * Band(calc.expected.status_class) + 99))

C25_Witness ==
  /\ StatusReturned
  /\ calc.expected = StatusClass("STATUS_CLASS_3XX")
  /\ calc.actual = 399
  /\ calc.result

\* C26: for an expectation with a status_value v, checkStatusPassing is true
\* exactly when actual = v, whatever status_class the expectation also has and
\* whether or not v and actual are in the same hundred.
C26_ExactValue ==
  (StatusReturned /\ calc.expected.has_value) =>
     (calc.result <=> calc.actual = calc.expected.status_value)

C26_Witness ==
  /\ StatusReturned
  /\ calc.expected.has_value
  /\ calc.expected.status_value = 250
  /\ calc.expected.status_class = "STATUS_CLASS_2XX"
  /\ calc.actual = 200
  /\ ~calc.result

\* C27: for an expectation with no status_value and a status_class that is
\* absent or STATUS_CLASS_UNSPECIFIED, checkStatusPassing is false for every
\* actual; whatever the expectation, it returns a boolean.
C27_UnsetNeverPasses ==
  StatusReturned =>
    /\ calc.result \in BOOLEAN
    /\ ((~calc.expected.has_value
          /\ calc.expected.status_class \in {"unset", "STATUS_CLASS_UNSPECIFIED"})
        => ~calc.result)

C27_Witness ==
  /\ StatusReturned
  /\ calc.expected = StatusClass("STATUS_CLASS_UNSPECIFIED")
  /\ calc.actual = 200
  /\ ~calc.result

\* C28 as stated: an expectation of STATUS_CLASS_ANY accepts every actual.
C28_Original ==
  (StatusReturned /\ ~calc.expected.has_value
     /\ calc.expected.status_class = "STATUS_CLASS_ANY") => calc.result

\* shuffleAndTruncate has returned
Shuffled == calc.op = "shuffleAndTruncate" /\ calc.state = "returned"

\* min(k, L - 1)
KeptLength(k, link_limit) == IF k < link_limit - 1 THEN k ELSE link_limit - 1

\* C29: for k links, a link_limit L >= 1 and any link_order, shuffleAndTruncate
\* returns min(k, L - 1) links, each of them one of the input and none of them
\* twice; with fewer than L - 1 links it returns them all.
C29_TruncatesToLimitLessOne ==
  Shuffled =>
    LET k == Len(calc.links)
        n == Len(calc.result)
    IN /\ n = KeptLength(k, calc.link_limit)
       /\ \A i \in 1 .. n : \E j \in 1 .. k : calc.result[i] = calc.links[j]
       /\ \A i, j \in 1 .. n : calc.result[i] = calc.result[j] => i = j
       /\ (k < calc.link_limit - 1 =>
             {calc.result[i] : i \in 1 .. n} = {calc.links[j] : j \in 1 .. k})

C29_Witness ==
  /\ Shuffled
  /\ calc.link_order = "RANDOM"
  /\ Len(calc.links) = 4
  /\ calc.link_limit = 3
  /\ Len(calc.result) = 2
  /\ calc.result[1] = calc.links[4]

\* C30: with a link_order other than RANDOM, shuffleAndTruncate returns the
\* first min(k, L - 1) links of the input, in the order of the input.
C30_FirstNIsPrefix ==
  (Shuffled /\ calc.link_order # "RANDOM") =>
     calc.result = SubSeq(calc.links, 1, KeptLength(Len(calc.links), calc.link_limit))

C30_Witness ==
  /\ Shuffled
  /\ calc.link_order = "FIRST_N"
  /\ Len(calc.links) = 4
  /\ calc.link_limit = 3
  /\ calc.result = <<calc.links[1], calc.links[2]>>

\* the links in the order p
Permuted(list, p) == [i \in 1 .. Len(list) |-> list[p[i]]]

\* shuffleAndTruncate has been called with RANDOM and has not run yet
ShuffleCalled ==
  calc.op = "shuffleAndTruncate" /\ calc.state = "called" /\ calc.link_order = "RANDOM"

\* C31: with RANDOM the result is the first min(k, L - 1) links of a
\* permutation of the input: every returned link is an input link, no input
\* position is used twice, and when L - 1 >= k the result holds each input link
\* once; before the call, every permutation of the input is a possible outcome.
C31_TruncatedPermutation ==
  /\ (Shuffled /\ calc.link_order = "RANDOM") =>
        LET k == Len(calc.links)
            n == KeptLength(k, calc.link_limit)
        IN /\ \E p \in Orderings(k) :
                calc.result = SubSeq(Permuted(calc.links, p), 1, n)
           /\ (calc.link_limit - 1 >= k =>
                 /\ Len(calc.result) = k
                 /\ \A j \in 1 .. k :
                      Cardinality({i \in 1 .. k : calc.result[i] = calc.links[j]}) = 1)
  /\ ShuffleCalled =>
        \A p \in Orderings(Len(calc.links)) :
           ENABLED (/\ ShuffleAndTruncate
                    /\ calc'.result = SubSeq(Permuted(calc.links, p), 1,
                                             KeptLength(Len(calc.links), calc.link_limit)))

C31_Witness ==
  /\ Shuffled
  /\ calc.link_order = "RANDOM"
  /\ Len(calc.links) = 4
  /\ calc.link_limit = 5
  /\ calc.result = <<calc.links[4], calc.links[3], calc.links[2], calc.links[1]>>

Policy(capture_condition, psd) ==
  CASE capture_condition = "ALL" -> TRUE
    [] capture_condition = "FAILING" -> ~psd
    [] OTHER -> FALSE

\* C33: shouldTakeScreenshot is true under ALL, true exactly for a link that did
\* not pass under FAILING, false under NONE; checkLink is at the upload only
\* after navigate's loop has ended, before the result is pushed, and only when
\* the policy holds for the final verdict; every result says a screenshot was
\* taken exactly when the policy holds for its verdict.
C33_ScreenshotPolicy ==
  /\ \A psd \in BOOLEAN :
       shouldTakeScreenshot(options, psd) = Policy(options.capture_condition, psd)
  /\ (pc = "upload" =>
        /\ Policy(options.capture_condition, passed)
        /\ (passed \/ retriesRemaining <= 0)
        /\ Len(followed_links) = idx - 1)
  /\ (pc = "gotoBlankPage" =>
        screenshotTaken = Policy(options.capture_condition, passed))
  /\ \A i \in 1 .. Len(followed_links) :
       followed_links[i].screenshot_taken
         = Policy(options.capture_condition, followed_links[i].link_passed)

C33_Witness ==
  /\ pc = "gotoBlankPage"
  /\ options.capture_condition = "FAILING"
  /\ Len(followed_links) = 2
  /\ followed_links[1].link_passed
  /\ ~followed_links[1].screenshot_taken
  /\ ~followed_links[2].link_passed
  /\ followed_links[2].screenshot_taken

\* C34: the expected status and the timeout of a link are those of the entry of
\* per_link_options under the link's own target_uri, when that entry is there
\* and has the field; else they are the 2xx class and the run's
\* link_timeout_millis. Every attempt of a link has the same timeout.
C34_PerLinkByExactUri ==
  /\ \A n \in 1 .. Len(attempts) :
       /\ attempts[n].target_uri = links[idx]
       /\ attempts[n].timeout =
            IF options.per_link_options[links[idx]].present
               /\ options.per_link_options[links[idx]].has_timeout
            THEN options.per_link_options[links[idx]].link_timeout_millis
            ELSE options.link_timeout_millis
  /\ \A i \in 1 .. Len(followed_links) :
       followed_links[i].expected_status_code =
         IF options.per_link_options[followed_links[i].target_uri].present
            /\ options.per_link_options[followed_links[i].target_uri].has_expected
         THEN options.per_link_options[followed_links[i].target_uri].expected_status_code
         ELSE StatusClass("STATUS_CLASS_2XX")

C34_Witness ==
  /\ pc = "fetchLink"
  /\ links = <<"u1", "u2">>
  /\ idx = 2
  /\ options.per_link_options["u1"].present
  /\ followed_links[1].expected_status_code = StatusValue(404)
  /\ Len(attempts) = 1
  /\ attempts[1].timeout = options.link_timeout_millis

C36_Original ==
  checkLinksPromise.state = "resolved" => followed_links = checkLinksPromise.value

\* C38 as stated: no timer armed by checkLinks is pending once checkLinks has
\* settled, by resolving or by rejecting.
C38_Original ==
  checkLinksPromise.state \in {"resolved", "rejected"} => timeLimitTimeout # "armed"

\* C39: when navigate returns with max_retries >= 0 it has made at least one
\* attempt (exactly one for max_retries = 0) and what it returns is the outcome
\* and the timestamps of one of its attempts; with max_retries < 0 it makes no
\* attempt and returns passed = false, no outcome, no timestamps.
C39_AtLeastOneAttempt ==
  /\ pc = "fetchLink" => options.max_retries >= 0
  /\ NavigateReturned =>
       /\ options.max_retries >= 0 =>
            /\ Len(attempts) >= 1
            /\ \E n \in 1 .. Len(attempts) : fetch_link_output = attempts[n].out
            /\ fetch_link_output.responseOrError # Undefined
            /\ fetch_link_output.linkStartTime >= 1
       /\ options.max_retries = 0 =>
            /\ Len(attempts) = 1
            /\ fetch_link_output = attempts[1].out
       /\ options.max_retries < 0 =>
            /\ Len(attempts) = 0
            /\ ~passed
            /\ fetch_link_output = NoOutput

C39_Witness ==
  /\ pc = "gotoBlankPage"
  /\ options.max_retries < 0
  /\ idx = 2
  /\ attempts = <<>>
  /\ ~followed_links[2].link_passed
  /\ ~followed_links[2].has_status_code
  /\ followed_links[2].link_start_time = 0

\* C40: every result with link_passed has a status_code, and that status_code
\* satisfies the result's own expected_status_code; every result of checkLinks
\* has is_origin = false and the run's origin_uri as source_uri.
C40_ResultsConsistent ==
  \A i \in 1 .. Len(followed_links) :
    /\ followed_links[i].link_passed =>
         /\ followed_links[i].has_status_code
         /\ checkStatusPassing(followed_links[i].expected_status_code,
                               followed_links[i].status_code)
    /\ followed_links[i].is_origin = FALSE
    /\ followed_links[i].source_uri = options.origin_uri
    /\ followed_links[i].source_uri # followed_links[i].target_uri

C40_Witness ==
  /\ Len(followed_links) = 2
  /\ followed_links[1].link_passed
  /\ followed_links[1].expected_status_code = StatusValue(404)
  /\ followed_links[1].status_code = 404
  /\ followed_links[2].link_passed
  /\ followed_links[2].expected_status_code = StatusClass("STATUS_CLASS_2XX")
  /\ followed_links[2].status_code = 200
  /\ ~followed_links[2].is_origin

\* C37 as stated: when the deadline has already passed at the call of
\* checkLinks (the delay computed for the timer is <= 0), no link check is
\* started and checkLinks resolves with an empty list.
C37_Original ==
  (calc.op = "getTimeLimitPromise" /\ calc.delay <= 0) =>
    /\ pc \notin {"fetchLink", "upload", "gotoBlankPage"}
    /\ attempts = <<>>
    /\ followed_links = <<>>
    /\ checkLinksPromise.state = "resolved" => checkLinksPromise.value = <<>>

====
